---- MODULE Spec2Model ----
(***************************************************************************)
(* The project resource of tower-cli (lib/tower_cli/resources/project.py): *)
(* the create, modify, update and status commands and the monitor loop     *)
(* that create and update delegate to, run against a model of the Tower   *)
(* server.                                                                 *)
(***************************************************************************)
EXTENDS Integers, Sequences, FiniteSets, TLC

\* ------------------------------------------------------------- bounds
\* Jobs (project updates) the server already holds when the model starts.
MaxPriorJobs == 2
\* The largest `elapsed` a job record reports.
MaxElapsed == 1
\* --timeout takes None or a number of seconds in 0..MaxTimeout.
MaxTimeout == 1

\* ------------------------------------------------------------- values
\* The invocations of the command line that may run (each its own process).
Invs == {1, 2}

\* A link that is present in `related` and null (Python's None).
Null == <<>>

\* timeout=None, and timeout=n.
NoTimeout == <<>>
Timeouts == {NoTimeout} \cup {<<n>> : n \in 0..MaxTimeout}

\* The monitor's clock saturates one tick above every timeout it is compared to.
ClockCap == MaxTimeout + 1

ActiveStatuses == {"pending", "running"}
TerminalStatuses == {"successful", "failed", "canceled"}
Statuses == ActiveStatuses \cup TerminalStatuses

\* The value a finished invocation has when it returned nothing (it raised).
NoValue == [none |-> TRUE]
\* The empty local variable.
Unset == [unset |-> TRUE]

\* --------------------------------------------------- the server's records
JobNames == <<"1", "2", "3", "4", "5", "6", "7", "8", "9">>

\* The 7-character prefix of every link the server hands out.
ApiPrefix == <<"/", "a", "p", "i", "/", "v", "1">>

\* The path of job j below the API root, and the link the server hands out.
JobPath(j) == <<"/project_updates/", JobNames[j], "/">>
JobUrl(j) == ApiPrefix \o JobPath(j)

\* `failed` as the server reports it with a status.
ServerFailed(st) == st \in {"failed", "canceled"}

JobRecord(j, st, el) == [id |-> j, status |-> st, failed |-> ServerFailed(st), elapsed |-> el]

VARIABLES
    jobs,       \* server: the project's update jobs, jobs[j] the record of job j
    related,    \* server: the project's related links (a dict: key -> link)
    manual,     \* server: the project is a manual one (never updatable)
    stored,     \* server: the project's record as create and modify write it
    pc,         \* per invocation: where it is
    cmd,        \* per invocation: the command and its arguments
    project,    \* per invocation: status's project record (its related links)
    path,       \* per invocation: status's job path, the link with its prefix stripped
    via,        \* per invocation: the link status followed ("none" before it chose)
    job,        \* per invocation: the job record status fetched
    wall,       \* per invocation: ticks since the monitor loop began
    retval,     \* per invocation: what the command returned
    exc,        \* per invocation: the exception the command raised ("none": none)
    hist,       \* per invocation: the calls it made (a record of counters and flags)
    answer      \* per invocation: create's answer, what its write returned

vars == <<jobs, related, manual, stored, pc, cmd, project, path, via, job, wall,
          retval, exc, hist, answer>>
server == <<jobs, related, manual>>
\* What only create and modify touch.
crud == <<stored, answer>>

\* ------------------------------------------------------- the server (REST)
\* GET /projects/{id}/update/ answers can_update: the project is not manual
\* and no update of it is pending or running.
CanUpdate == ~manual /\ \A j \in 1..Len(jobs) : jobs[j].status \notin ActiveStatuses

\* GET <job path>: the job the path names (0: no such job, a 404).
RouteJob(p) == IF \E j \in 1..Len(jobs) : JobPath(j) = p
               THEN CHOOSE j \in 1..Len(jobs) : JobPath(j) = p
               ELSE 0

\* `related` without one key, and with one key set.
DropKey(r, k) == [x \in (DOMAIN r) \ {k} |-> r[x]]
SetKey(r, k, v) == [x \in (DOMAIN r) \cup {k} |-> IF x = k THEN v ELSE r[x]]

\* POST /projects/{id}/update/ accepted: a new pending job, the project's current update.
ServerStartUpdate ==
    /\ jobs' = Append(jobs, JobRecord(Len(jobs) + 1, "pending", 0))
    /\ related' = SetKey(related, "current_update", JobUrl(Len(jobs) + 1))
    /\ UNCHANGED manual

\* The project's record before the project exists, and that of a project
\* that exists and has had no attribute set.
NoProject == [exists |-> FALSE, organization |-> Null, description |-> Null]
SomeProject == [exists |-> TRUE, organization |-> Null, description |-> Null]

\* The statuses a job may move to.
NextStatuses(st) == IF st = "pending" THEN {"running", "canceled"}
                    ELSE IF st = "running" THEN TerminalStatuses
                    ELSE {}

\* The server runs a job on: pending -> running -> terminal. A job that ends
\* stops being the current update and becomes the last one.
ServerJobStep ==
    \E j \in 1..Len(jobs) : \E st \in NextStatuses(jobs[j].status) :
        /\ jobs' = [jobs EXCEPT ![j] = JobRecord(j, st, jobs[j].elapsed)]
        /\ related' = IF st \in TerminalStatuses
                      THEN SetKey(IF "current_update" \in DOMAIN related
                                     /\ related["current_update"] = JobUrl(j)
                                  THEN DropKey(related, "current_update")
                                  ELSE related,
                                  "last_update", JobUrl(j))
                      ELSE related
        /\ UNCHANGED <<manual, pc, cmd, project, path, via, job, wall, retval, exc, hist>>

\* A running job's elapsed time grows.
ServerTick ==
    \E j \in 1..Len(jobs) :
        /\ jobs[j].status = "running"
        /\ jobs[j].elapsed < MaxElapsed
        /\ jobs' = [jobs EXCEPT ![j].elapsed = @ + 1]
        /\ UNCHANGED <<related, manual, pc, cmd, project, path, via, job, wall, retval, exc, hist>>

\* ------------------------------------------------- the client's helpers
\* hist[i] at the start: no call made yet.
NoCalls == [gets |-> 0, eligs |-> 0, posts |-> 0, created |-> 0, order |-> <<>>,
            writes |-> 0, assocs |-> 0,
            lookup |-> "unasked", can_update |-> "unasked", job |-> 0,
            failedCall |-> "none", firstStatus |-> "none",
            sawTerminal |-> FALSE, late |-> FALSE]

\* hist[i] after one more call of a kind: its counter, and the order in which
\* the kinds of call were first made. A call made after the invocation saw a
\* terminal job, raised or returned is a late one.
Note(i, kind) ==
    [hist[i] EXCEPT
        !.order = IF \E k \in 1..Len(@) : @[k] = kind THEN @ ELSE Append(@, kind),
        !.gets = IF kind = "get" THEN @ + 1 ELSE @,
        !.eligs = IF kind = "can_update" THEN @ + 1 ELSE @,
        !.posts = IF kind = "post" THEN @ + 1 ELSE @,
        !.writes = IF kind = "write" THEN @ + 1 ELSE @,
        !.assocs = IF kind = "assoc" THEN @ + 1 ELSE @,
        !.late = @ \/ hist[i].sawTerminal \/ exc[i] # "none" \/ retval[i] # NoValue]

\* hist[i] after a call of a kind that the API client failed.
NoteFailed(i, kind) == [Note(i, kind) EXCEPT !.failedCall = kind]

\* hist[i] after a POST the server answered by starting a job: the job's id.
NotePosted(i) == [Note(i, "post") EXCEPT !.created = @ + 1, !.job = Len(jobs) + 1]

\* The command returns v.
Return(i, v) ==
    /\ pc' = [pc EXCEPT ![i] = "done"]
    /\ retval' = [retval EXCEPT ![i] = v]
    /\ exc' = exc

\* The command raises e, which nothing in this module catches.
Raise(i, e) ==
    /\ pc' = [pc EXCEPT ![i] = "done"]
    /\ exc' = [exc EXCEPT ![i] = e]
    /\ retval' = retval

\* The command goes on at `at`.
Goto(i, at) ==
    /\ pc' = [pc EXCEPT ![i] = at]
    /\ UNCHANGED <<retval, exc>>

\* The outcomes of one HTTP call of the API client: an answer, or a
\* transport/HTTP failure raised to the caller.
HttpOutcomes == {"ok", "TransportError"}

\* ------------------------------------------------------------ update
\* The number of characters status strips from a link.
PrefixLen == 7

\* models.Resource.get: the record of the one project the identity names;
\* NotFound with zero matches or with several.
ResourceGet(matches) == IF matches = 1 THEN "ok" ELSE "NotFound"

\* The command line starts a command with its arguments.
Start(i) ==
    /\ pc[i] = "idle"
    /\ \E op \in {"update", "status"}, m \in BOOLEAN, t \in Timeouts, d \in BOOLEAN :
        /\ op = "update" => d = FALSE
        /\ op = "status" => (m = FALSE /\ t = NoTimeout)
        /\ cmd' = [cmd EXCEPT ![i] = [op |-> op, monitor |-> m, timeout |-> t, detail |-> d]]
        /\ pc' = [pc EXCEPT ![i] = IF op = "update" THEN "get" ELSE "st_project"]
    /\ UNCHANGED <<server, project, path, via, job, wall, retval, exc, hist>>

\* update, "First, get the appropriate project": project = self.get(...).
UpdateGet(i) ==
    /\ pc[i] = "get"
    /\ \E http \in HttpOutcomes, matches \in 0..2 :
        IF http # "ok"
        THEN /\ Raise(i, http)
             /\ hist' = [hist EXCEPT ![i] = NoteFailed(i, "get")]
        ELSE /\ hist' = [hist EXCEPT ![i] =
                    [Note(i, "get") EXCEPT !.lookup = ResourceGet(matches)]]
             /\ IF ResourceGet(matches) # "ok"
                THEN Raise(i, ResourceGet(matches))
                ELSE Goto(i, "can_update")
    /\ UNCHANGED <<server, cmd, project, path, via, job, wall>>

\* A variant of UpdateCanUpdate that never looks at the answer's can_update.
UpdateCanUpdateUnchecked(i) ==
    /\ pc[i] = "can_update"
    /\ \E http \in HttpOutcomes :
        IF http # "ok"
        THEN /\ Raise(i, http)
             /\ hist' = [hist EXCEPT ![i] = NoteFailed(i, "can_update")]
        ELSE /\ hist' = [hist EXCEPT ![i] =
                    [Note(i, "can_update") EXCEPT
                        !.can_update = IF CanUpdate THEN "true" ELSE "false"]]
             /\ Goto(i, "post")
    /\ UNCHANGED <<server, cmd, project, path, via, job, wall>>

\* update, "Determine whether this project is able to be updated":
\* GET /projects/{pk}/update/, and CannotStartJob unless can_update.
UpdateCanUpdate(i) ==
    /\ pc[i] = "can_update"
    /\ \E http \in HttpOutcomes :
        IF http # "ok"
        THEN /\ Raise(i, http)
             /\ hist' = [hist EXCEPT ![i] = NoteFailed(i, "can_update")]
        ELSE /\ hist' = [hist EXCEPT ![i] =
                    [Note(i, "can_update") EXCEPT
                        !.can_update = IF CanUpdate THEN "true" ELSE "false"]]
             /\ IF ~CanUpdate
                THEN Raise(i, "CannotStartJob")
                ELSE Goto(i, "post")
    /\ UNCHANGED <<server, cmd, project, path, via, job, wall>>

\* A variant of AfterPost that never monitors.
AfterPostNoMonitor(i) == Return(i, [changed |-> TRUE])

\* What update does once its POST is answered: monitor, or {'changed': True}.
AfterPost(i) ==
    IF cmd[i].monitor
    THEN Goto(i, "st_project")
    ELSE Return(i, [changed |-> TRUE])

\* A variant of UpdatePost that goes on after a POST that failed.
UpdatePostIgnoreFailure(i) ==
    /\ pc[i] = "post"
    /\ \E http \in HttpOutcomes :
        IF http = "ok" /\ CanUpdate
        THEN /\ ServerStartUpdate
             /\ hist' = [hist EXCEPT ![i] = NotePosted(i)]
             /\ AfterPost(i)
        ELSE /\ AfterPost(i)
             /\ hist' = [hist EXCEPT ![i] = NoteFailed(i, "post")]
             /\ UNCHANGED server
    /\ wall' = [wall EXCEPT ![i] = 0]
    /\ UNCHANGED <<cmd, project, path, via, job>>

\* A variant of UpdatePost that sends a failed POST once more.
UpdatePostRetry(i) ==
    /\ pc[i] = "post"
    /\ \E http \in HttpOutcomes :
        IF http = "ok" /\ CanUpdate
        THEN /\ ServerStartUpdate
             /\ hist' = [hist EXCEPT ![i] = NotePosted(i)]
             /\ AfterPost(i)
        ELSE /\ IF hist[i].posts = 0 THEN Goto(i, "post") ELSE Raise(i, "TransportError")
             /\ hist' = [hist EXCEPT ![i] = NoteFailed(i, "post")]
             /\ UNCHANGED server
    /\ wall' = [wall EXCEPT ![i] = 0]
    /\ UNCHANGED <<cmd, project, path, via, job>>

\* A variant of UpdatePost that sends its POST a second time.
UpdatePostTwice(i) ==
    /\ pc[i] = "post"
    /\ \E http \in HttpOutcomes :
        IF http = "ok" /\ CanUpdate
        THEN /\ ServerStartUpdate
             /\ hist' = [hist EXCEPT ![i] = NotePosted(i)]
             /\ IF hist[i].posts = 0 THEN Goto(i, "post") ELSE AfterPost(i)
        ELSE /\ Raise(i, "TransportError")
             /\ hist' = [hist EXCEPT ![i] = NoteFailed(i, "post")]
             /\ UNCHANGED server
    /\ wall' = [wall EXCEPT ![i] = 0]
    /\ UNCHANGED <<cmd, project, path, via, job>>

\* update, "Commence the update": POST /projects/{pk}/update/. The server
\* starts a job if the project is updatable as the POST arrives, and refuses
\* (an HTTP error) otherwise.
UpdatePost(i) ==
    /\ pc[i] = "post"
    /\ \E http \in HttpOutcomes :
        IF http = "ok" /\ CanUpdate
        THEN /\ ServerStartUpdate
             /\ hist' = [hist EXCEPT ![i] = NotePosted(i)]
             /\ AfterPost(i)
        ELSE /\ Raise(i, "TransportError")
             /\ hist' = [hist EXCEPT ![i] = NoteFailed(i, "post")]
             /\ UNCHANGED server
    /\ wall' = [wall EXCEPT ![i] = 0]
    /\ UNCHANGED <<cmd, project, path, via, job>>

\* ------------------------------------------------------------ status
\* link[7:], the link without its first seven characters.
StripPrefix(link) == SubSeq(link, PrefixLen + 1, Len(link))

\* A variant of ResolveUpdate that looks at last_update first.
ResolveUpdateLastFirst(rel) ==
    IF "last_update" \in DOMAIN rel /\ rel["last_update"] # Null
    THEN [via |-> "last_update", exc |-> "none", path |-> StripPrefix(rel["last_update"])]
    ELSE IF "current_update" \in DOMAIN rel
    THEN IF rel["current_update"] = Null
         THEN [via |-> "current_update", exc |-> "TypeError", path |-> <<>>]
         ELSE [via |-> "current_update", exc |-> "none",
               path |-> StripPrefix(rel["current_update"])]
    ELSE [via |-> "none", exc |-> "NotFound", path |-> <<>>]

\* A variant of ResolveUpdate that follows last_update whenever the key is there.
ResolveUpdateAnyLast(rel) ==
    IF "current_update" \in DOMAIN rel
    THEN IF rel["current_update"] = Null
         THEN [via |-> "current_update", exc |-> "TypeError", path |-> <<>>]
         ELSE [via |-> "current_update", exc |-> "none",
               path |-> StripPrefix(rel["current_update"])]
    ELSE IF "last_update" \in DOMAIN rel
    THEN IF rel["last_update"] = Null
         THEN [via |-> "last_update", exc |-> "TypeError", path |-> <<>>]
         ELSE [via |-> "last_update", exc |-> "none",
               path |-> StripPrefix(rel["last_update"])]
    ELSE [via |-> "none", exc |-> "NotFound", path |-> <<>>]

\* status, "Determine the appropriate project update": the link to follow.
\* current_update if the key is in `related` (None[7:] is a TypeError), else
\* last_update if it is there and not None, else NotFound.
ResolveUpdate(rel) ==
    IF "current_update" \in DOMAIN rel
    THEN IF rel["current_update"] = Null
         THEN [via |-> "current_update", exc |-> "TypeError", path |-> <<>>]
         ELSE [via |-> "current_update", exc |-> "none",
               path |-> StripPrefix(rel["current_update"])]
    ELSE IF "last_update" \in DOMAIN rel /\ rel["last_update"] # Null
    THEN [via |-> "last_update", exc |-> "none", path |-> StripPrefix(rel["last_update"])]
    ELSE [via |-> "none", exc |-> "NotFound", path |-> <<>>]

\* A variant of StatusResult that returns the three fields whatever --detail is.
StatusResultSummary(j, detail) ==
    [elapsed |-> j.elapsed, failed |-> j.failed, status |-> j.status]

\* A variant of StatusResult that returns the whole job whatever --detail is.
StatusResultWhole(j, detail) == j

\* status's return value: the job with --detail, else the three fields.
StatusResult(j, detail) ==
    IF detail THEN j
    ELSE [elapsed |-> j.elapsed, failed |-> j.failed, status |-> j.status]

\* ------------------------------------------------------------ monitor
\* The monitor asks status for the whole job record.
MonitorDetail == TRUE

\* What the monitor returns when its time is up.
TimeoutResult == [timed_out |-> TRUE]

\* One more tick of the monitor's clock.
Tick(w) == IF w < ClockCap THEN w + 1 ELSE w

\* The monitor's step after a poll that answered `result`, w ticks after the
\* loop began: return a terminal job, give up once the timeout is exceeded,
\* or sleep and poll again.
MonitorDecision(result, timeout, w) ==
    IF result.status \notin ActiveStatuses THEN "return"
    ELSE IF timeout # NoTimeout /\ w > timeout[1] THEN "timeout"
    ELSE "sleep"

\* A variant of StatusGetProject that sends a POST to the update endpoint
\* before it reads the project.
StatusGetProjectPosting(i) ==
    /\ pc[i] = "st_project"
    /\ \E http \in HttpOutcomes :
        LET r == ResolveUpdate(related) IN
        IF http # "ok"
        THEN /\ Raise(i, http)
             /\ hist' = [hist EXCEPT ![i] = NoteFailed(i, "status")]
             /\ project' = [project EXCEPT ![i] = Unset]
             /\ via' = [via EXCEPT ![i] = "none"]
             /\ path' = [path EXCEPT ![i] = <<>>]
             /\ UNCHANGED server
        ELSE /\ hist' = [hist EXCEPT ![i] = Note(i, "status")]
             /\ project' = [project EXCEPT ![i] = related]
             /\ via' = [via EXCEPT ![i] = r.via]
             /\ path' = [path EXCEPT ![i] = r.path]
             /\ IF r.exc # "none" THEN Raise(i, r.exc) ELSE Goto(i, "st_job")
             /\ IF CanUpdate THEN ServerStartUpdate ELSE UNCHANGED server
    /\ job' = [job EXCEPT ![i] = Unset]
    /\ UNCHANGED <<cmd, wall>>

\* status, the first GET: the project record, and the link chosen from it.
\* Each call of status starts with fresh locals.
StatusGetProject(i) ==
    /\ pc[i] = "st_project"
    /\ \E http \in HttpOutcomes :
        LET r == ResolveUpdate(related) IN
        IF http # "ok"
        THEN /\ Raise(i, http)
             /\ hist' = [hist EXCEPT ![i] = NoteFailed(i, "status")]
             /\ project' = [project EXCEPT ![i] = Unset]
             /\ via' = [via EXCEPT ![i] = "none"]
             /\ path' = [path EXCEPT ![i] = <<>>]
        ELSE /\ hist' = [hist EXCEPT ![i] = Note(i, "status")]
             /\ project' = [project EXCEPT ![i] = related]
             /\ via' = [via EXCEPT ![i] = r.via]
             /\ path' = [path EXCEPT ![i] = r.path]
             /\ IF r.exc # "none" THEN Raise(i, r.exc) ELSE Goto(i, "st_job")
    /\ job' = [job EXCEPT ![i] = Unset]
    /\ UNCHANGED <<server, cmd, wall>>

\* hist[i] after the monitor's poll answered job j.
NotePolled(i, j) ==
    [hist[i] EXCEPT !.firstStatus = IF @ = "none" THEN j.status ELSE @,
                    !.sawTerminal = @ \/ j.status \in TerminalStatuses]

\* A variant of MonitorTimeout that hands the monitor no timeout.
MonitorTimeoutDropped(i) == NoTimeout

\* A variant of MonitorTimeout that hands the monitor a timeout of 0 for None.
MonitorTimeoutZero(i) == IF cmd[i].timeout = NoTimeout THEN <<0>> ELSE cmd[i].timeout

\* update, self.monitor(pk, timeout=timeout): the timeout the monitor is given.
MonitorTimeout(i) == cmd[i].timeout

\* The monitor after a poll that answered `result` (status's return value
\* for job j): it returns the result, returns the timeout indication, or sleeps.
MonitorStep(i, j, result) ==
    LET d == MonitorDecision(result, MonitorTimeout(i), Tick(wall[i]))
    IN /\ hist' = [hist EXCEPT ![i] = NotePolled(i, j)]
       /\ IF d = "return" THEN Return(i, result)
          ELSE IF d = "timeout" THEN Return(i, TimeoutResult)
          ELSE Goto(i, "sleep")

\* What follows status's answer: the status command returns it; the monitor
\* that called status decides on it.
AfterStatus(i, j) ==
    IF cmd[i].op = "status"
    THEN /\ Return(i, StatusResult(j, cmd[i].detail))
         /\ hist' = hist
    ELSE MonitorStep(i, j, StatusResult(j, MonitorDetail))

\* status, the second GET: the job the link names. A poll takes a tick.
StatusGetJob(i) ==
    /\ pc[i] = "st_job"
    /\ \E http \in HttpOutcomes :
        IF http # "ok" \/ RouteJob(path[i]) = 0
        THEN /\ Raise(i, "TransportError")
             /\ hist' = [hist EXCEPT ![i] = NoteFailed(i, "status")]
             /\ UNCHANGED job
        ELSE /\ job' = [job EXCEPT ![i] = jobs[RouteJob(path[i])]]
             /\ AfterStatus(i, jobs[RouteJob(path[i])])
    /\ wall' = [wall EXCEPT ![i] = Tick(@)]
    /\ UNCHANGED <<server, cmd, project, path, via>>

\* The monitor sleeps its interval, then polls again.
MonitorSleep(i) ==
    /\ pc[i] = "sleep"
    /\ pc' = [pc EXCEPT ![i] = "st_project"]
    /\ wall' = [wall EXCEPT ![i] = Tick(@)]
    /\ UNCHANGED <<server, cmd, project, path, via, job, retval, exc, hist>>

\* ------------------------------------------------------ specification
LinkKeys == {"current_update", "last_update"}

\* The jobs a project may already have: all ended but, perhaps, the latest.
PriorJobs ==
    UNION {{[k \in 1..n |-> JobRecord(k, s[k], IF s[k] = "pending" THEN 0 ELSE 1)] :
                s \in {t \in [1..n -> Statuses] :
                          \A k \in 1..(n - 1) : t[k] \in TerminalStatuses}} :
           n \in 0..MaxPriorJobs}

\* The related links a project record may carry: each key missing, null, or
\* the link of one of the project's jobs.
RelatedOf(js) ==
    UNION {[D -> {Null} \cup {JobUrl(j) : j \in 1..Len(js)}] : D \in SUBSET LinkKeys}

InitServer ==
    /\ jobs \in PriorJobs
    /\ related \in RelatedOf(jobs)
    /\ manual \in BOOLEAN

InitClient(running) ==
    /\ pc = [i \in Invs |-> IF i \in running THEN "idle" ELSE "off"]
    /\ cmd = [i \in Invs |-> [op |-> "none", monitor |-> FALSE,
                              timeout |-> NoTimeout, detail |-> FALSE]]
    /\ project = [i \in Invs |-> Unset]
    /\ path = [i \in Invs |-> <<>>]
    /\ via = [i \in Invs |-> "none"]
    /\ job = [i \in Invs |-> Unset]
    /\ wall = [i \in Invs |-> 0]
    /\ retval = [i \in Invs |-> NoValue]
    /\ exc = [i \in Invs |-> "none"]
    /\ hist = [i \in Invs |-> NoCalls]
    /\ answer = [i \in Invs |-> Unset]

\* One invocation of the command line against the server.
Init == InitServer /\ stored = SomeProject /\ InitClient({1})

Client(i) ==
    \/ Start(i)
    \/ UpdateGet(i)
    \/ UpdateCanUpdate(i)
    \/ UpdatePost(i)
    \/ StatusGetProject(i)
    \/ StatusGetJob(i)
    \/ MonitorSleep(i)

Next ==
    \/ \E i \in Invs : Client(i) /\ UNCHANGED crud
    \/ ServerJobStep /\ UNCHANGED crud
    \/ ServerTick /\ UNCHANGED crud

Spec == Init /\ [][Next]_vars

\* ------------------------------------------------------------ claims
\* The invocation made a call of this kind.
Made(i, kind) == \E k \in 1..Len(hist[i].order) : hist[i].order[k] = kind

\* The invocation is over: it returned or raised.
Done(i) == pc[i] = "done"

\* C1: an update whose eligibility GET answered can_update == false has
\* raised CannotStartJob, and has sent no POST, created no job and polled no
\* status, whatever its monitor and timeout arguments.
C1_IneligibleRaisesWithoutPost ==
    \A i \in Invs :
        hist[i].can_update = "false" =>
            /\ Done(i)
            /\ exc[i] = "CannotStartJob"
            /\ retval[i] = NoValue
            /\ hist[i].posts = 0
            /\ hist[i].created = 0
            /\ ~Made(i, "post")
            /\ ~Made(i, "status")

\* An update with --monitor and --timeout 0 was answered can_update == false.
C1_Witness ==
    \E i \in Invs :
        /\ hist[i].can_update = "false"
        /\ cmd[i].monitor
        /\ cmd[i].timeout = <<0>>
        /\ Done(i)

HasProject(i) == "unset" \notin DOMAIN project[i]

\* The status call of invocation i has fetched a job.
HasJob(i) == "id" \in DOMAIN job[i]

\* The link under key k of the project record is there and not null.
HasLink(i, k) == k \in DOMAIN project[i] /\ project[i][k] # Null

\* The job a link of the server refers to.
Referenced(link) == CHOOSE j \in 1..Len(JobNames) : JobUrl(j) = link

\* C3: when the project record status read holds both current_update and
\* last_update, status follows current_update: the path it asks for and the
\* job it fetches are those of current_update, never those of a last_update
\* that names another job.
C3_CurrentUpdateWins ==
    \A i \in Invs :
        (HasProject(i) /\ LinkKeys \subseteq DOMAIN project[i]) =>
            /\ via[i] = "current_update"
            /\ HasLink(i, "current_update") =>
                /\ path[i] = JobPath(Referenced(project[i]["current_update"]))
                /\ HasJob(i) => job[i].id = Referenced(project[i]["current_update"])
            /\ (HasJob(i) /\ HasLink(i, "last_update")
                    /\ project[i]["last_update"] # project[i]["current_update"])
                => job[i].id # Referenced(project[i]["last_update"])

\* status fetched the job of current_update from a record whose last_update
\* names another job.
C3_Witness ==
    \E i \in Invs :
        /\ HasProject(i)
        /\ HasLink(i, "current_update")
        /\ HasLink(i, "last_update")
        /\ project[i]["last_update"] # project[i]["current_update"]
        /\ HasJob(i)
        /\ job[i].id = Referenced(project[i]["current_update"])
        /\ Done(i)

\* C4: when the project record holds no current_update: with a non-null
\* last_update status follows it, fetches the job it names and (its GET
\* answered) returns that job's record or summary; with last_update missing
\* or null status raises NotFound, fetches no job and returns nothing.
C4_FallbackOrNotFound ==
    \A i \in Invs :
        (HasProject(i) /\ "current_update" \notin DOMAIN project[i]) =>
            IF HasLink(i, "last_update")
            THEN /\ via[i] = "last_update"
                 /\ path[i] = JobPath(Referenced(project[i]["last_update"]))
                 /\ exc[i] \notin {"NotFound", "TypeError"}
                 /\ HasJob(i) => job[i].id = Referenced(project[i]["last_update"])
                 /\ (cmd[i].op = "status" /\ Done(i) /\ hist[i].failedCall = "none") =>
                        /\ HasJob(i)
                        /\ exc[i] = "none"
                        /\ retval[i] = StatusResult(job[i], cmd[i].detail)
            ELSE /\ Done(i)
                 /\ exc[i] = "NotFound"
                 /\ via[i] = "none"
                 /\ ~HasJob(i)
                 /\ retval[i] = NoValue

\* The status command raised NotFound on a record whose last_update is null.
C4_Witness ==
    \E i \in Invs :
        /\ cmd[i].op = "status"
        /\ HasProject(i)
        /\ DOMAIN project[i] = {"last_update"}
        /\ project[i]["last_update"] = Null
        /\ exc[i] = "NotFound"
        /\ Done(i)

\* C5: the status command that returns, returns without --detail a record of
\* exactly the keys elapsed, failed and status, each the value of the job it
\* fetched, and with --detail the fetched job record itself; the fetched job
\* is the one the followed link names.
C5_StatusProjection ==
    \A i \in Invs :
        (cmd[i].op = "status" /\ Done(i) /\ exc[i] = "none") =>
            /\ HasJob(i)
            /\ HasLink(i, via[i])
            /\ job[i].id = Referenced(project[i][via[i]])
            /\ IF cmd[i].detail
               THEN retval[i] = job[i]
               ELSE /\ DOMAIN retval[i] = {"elapsed", "failed", "status"}
                    /\ retval[i]["elapsed"] = job[i].elapsed
                    /\ retval[i]["failed"] = job[i].failed
                    /\ retval[i]["status"] = job[i].status

\* The status command without --detail returned the summary of a failed job.
C5_Witness ==
    \E i \in Invs :
        /\ cmd[i].op = "status"
        /\ ~cmd[i].detail
        /\ Done(i)
        /\ exc[i] = "none"
        /\ HasJob(i)
        /\ job[i].status = "failed"
        /\ retval[i] = [elapsed |-> job[i].elapsed, failed |-> TRUE, status |-> "failed"]

\* The invocation is an update with --monitor.
Monitoring(i) == cmd[i].op = "update" /\ cmd[i].monitor

\* The value is a job record as status --detail returns it.
IsJob(v) == DOMAIN v = {"id", "status", "failed", "elapsed"}

\* C6: the monitor stops at the first poll that resolves a terminal job: in
\* the very step in which it sees one it returns that poll's job record, and
\* it polls no more; a job record it returns is never one that was pending
\* or running when polled.
C6_MonitorReturnsFirstTerminal ==
    \A i \in Invs :
        Monitoring(i) =>
            /\ hist[i].sawTerminal =>
                /\ Done(i)
                /\ exc[i] = "none"
                /\ HasJob(i)
                /\ job[i].status \in TerminalStatuses
                /\ retval[i] = job[i]
                /\ ~hist[i].late
            /\ IsJob(retval[i]) =>
                /\ retval[i].status \in TerminalStatuses
                /\ hist[i].sawTerminal

\* The monitor polled a job that was not over, slept, then polled it ended
\* and returned it.
C6_Witness ==
    \E i \in Invs :
        /\ Monitoring(i)
        /\ hist[i].firstStatus \in ActiveStatuses
        /\ hist[i].sawTerminal
        /\ Done(i)
        /\ retval[i] = job[i]
        /\ job[i].status = "successful"

\* C7: the monitor with a timeout: it never sleeps once its clock exceeds
\* the timeout; the timeout indication is returned (not raised) only with
\* the clock past the timeout and the last poll's job still pending or
\* running, and it is no job record; with timeout 0 and a first poll that
\* found the job pending or running the result is the timeout indication.
C7_MonitorTimesOut ==
    \A i \in Invs :
        (Monitoring(i) /\ cmd[i].timeout # NoTimeout) =>
            /\ pc[i] = "sleep" => wall[i] <= cmd[i].timeout[1]
            /\ retval[i] = TimeoutResult =>
                /\ Done(i)
                /\ exc[i] = "none"
                /\ wall[i] > cmd[i].timeout[1]
                /\ HasJob(i)
                /\ job[i].status \in ActiveStatuses
                /\ ~hist[i].sawTerminal
                /\ ~IsJob(retval[i])
            /\ (cmd[i].timeout = <<0>> /\ hist[i].firstStatus \in ActiveStatuses) =>
                /\ Done(i)
                /\ exc[i] = "none"
                /\ retval[i] = TimeoutResult

\* The monitor with timeout 0 polled a running job once and returned the
\* timeout indication.
C7_Witness ==
    \E i \in Invs :
        /\ Monitoring(i)
        /\ cmd[i].timeout = <<0>>
        /\ hist[i].firstStatus = "running"
        /\ Done(i)
        /\ retval[i] = TimeoutResult

\* One invocation against a project with at most one earlier update.
FairInit == Init /\ Len(jobs) <= 1

\* An invocation that is not over keeps running, and the server runs every
\* job to its end.
FairSpec ==
    /\ FairInit
    /\ [][Next]_vars
    /\ WF_vars(ServerJobStep /\ UNCHANGED crud)
    /\ \A i \in Invs : WF_vars(Client(i) /\ UNCHANGED crud)

\* The monitor of invocation i was given no timeout.
Unbounded(i) == Monitoring(i) /\ cmd[i].timeout = NoTimeout

\* The monitor of invocation i came back with the terminal job of its last
\* poll, or an error ended it.
CameBack(i) ==
    /\ Done(i)
    /\ exc[i] = "none" =>
        /\ HasJob(i)
        /\ retval[i] = job[i]
        /\ job[i].status \in TerminalStatuses

\* C8: the monitor with timeout=None never returns the timeout indication
\* and returns only once a poll saw a terminal job; and, the server running
\* the job to its end, the monitor that began (the POST was answered)
\* eventually comes back with the terminal job of its last poll, unless an
\* error of a poll ended it.
C8_UnboundedMonitor ==
    /\ [](\A i \in Invs :
            Unbounded(i) =>
                /\ retval[i] # TimeoutResult
                /\ (Done(i) /\ exc[i] = "none") => (hist[i].sawTerminal /\ CameBack(i))
                /\ pc[i] = "sleep" => (HasJob(i) /\ job[i].status \in ActiveStatuses))
    /\ \A i \in Invs : (Unbounded(i) /\ hist[i].created = 1) ~> CameBack(i)

\* The unbounded monitor slept with its clock past every timeout, and later
\* returned the job it then polled ended.
C8_Witness ==
    \E i \in Invs :
        /\ Unbounded(i)
        /\ wall[i] = ClockCap
        /\ hist[i].firstStatus = "pending"
        /\ Done(i)
        /\ retval[i] = job[i]
        /\ job[i].status \in TerminalStatuses

\* s is an initial part of t.
IsPrefix(s, t) == Len(s) <= Len(t) /\ \A k \in 1..Len(s) : s[k] = t[k]

\* C9: no error is swallowed or retried: a call the API client failed ends
\* the command at once with that error, which is never turned into a result
\* (a job, a summary, the timeout indication); what raised returned nothing;
\* no call follows a raise; and update sends its identity lookup, its
\* eligibility GET and its POST at most once each.
C9_ErrorsPropagateUnretried ==
    \A i \in Invs :
        /\ hist[i].failedCall # "none" =>
            /\ Done(i)
            /\ exc[i] = "TransportError"
        /\ exc[i] # "none" =>
            /\ Done(i)
            /\ retval[i] = NoValue
        /\ ~hist[i].late
        /\ hist[i].gets <= 1
        /\ hist[i].eligs <= 1
        /\ hist[i].posts <= 1

\* A poll of the monitor failed after an earlier poll had answered, and the
\* update ended with the transport error.
C9_Witness ==
    \E i \in Invs :
        /\ Monitoring(i)
        /\ hist[i].firstStatus \in ActiveStatuses
        /\ hist[i].failedCall = "status"
        /\ Done(i)
        /\ exc[i] = "TransportError"
        /\ retval[i] = NoValue

\* C10: update makes its calls in the order identity lookup, eligibility
\* GET, POST, status polls, and polls only after its POST was answered;
\* with --monitor an update that returns, returns the monitor's result (the
\* polled job or the timeout indication), not {changed: true}; without
\* --monitor it polls no status.
C10_UpdateThenMonitor ==
    \A i \in Invs :
        cmd[i].op = "update" =>
            /\ IsPrefix(hist[i].order, <<"get", "can_update", "post", "status">>)
            /\ Made(i, "status") => (cmd[i].monitor /\ hist[i].created = 1)
            /\ (cmd[i].monitor /\ Done(i) /\ exc[i] = "none") =>
                /\ Made(i, "status")
                /\ retval[i] # [changed |-> TRUE]
                /\ HasJob(i)
                /\ retval[i] = job[i] \/ retval[i] = TimeoutResult
            /\ (~cmd[i].monitor /\ Done(i) /\ exc[i] = "none") =>
                retval[i] = [changed |-> TRUE]

\* An update with --monitor made its four kinds of call and returned the job
\* its monitor polled.
C10_Witness ==
    \E i \in Invs :
        /\ Monitoring(i)
        /\ hist[i].order = <<"get", "can_update", "post", "status">>
        /\ Done(i)
        /\ HasJob(i)
        /\ retval[i] = job[i]

\* Where an invocation is while status or the monitor runs.
StatusPcs == {"st_project", "st_job", "sleep"}

\* C11: status and the monitor only read: a step of status or of the monitor
\* sends no POST and leaves the server's jobs and project as they are, also
\* the step in which the monitor gives up on its timeout; and a job that is
\* still pending or running when the monitor has timed out can go on to its
\* end on the server.
C11_StatusOnlyReads ==
    /\ [][\A i \in Invs :
            (pc[i] \in StatusPcs /\ pc'[i] # pc[i]) =>
                /\ jobs' = jobs
                /\ related' = related
                /\ manual' = manual
                /\ hist'[i].posts = hist[i].posts]_vars
    /\ [](\A i \in Invs :
            (retval[i] = TimeoutResult /\ hist[i].job > 0
                /\ jobs[hist[i].job].status \in ActiveStatuses)
            => ENABLED ServerJobStep)

\* The monitor timed out, and the job its update had started ended later.
C11_Witness ==
    \E i \in Invs :
        /\ Monitoring(i)
        /\ retval[i] = TimeoutResult
        /\ hist[i].job > 0
        /\ jobs[hist[i].job].status \in TerminalStatuses

\* C14: in update a step that fails keeps every later call from being made:
\* an identity lookup that fails (no match, several matches, or the call
\* itself) is followed by no eligibility GET and no POST; an eligibility GET
\* that fails by no POST; a POST that fails by no poll of the monitor, and
\* then {changed: true} is not returned. In each case update raises.
C14_FailureStopsUpdate ==
    \A i \in Invs :
        cmd[i].op = "update" =>
            /\ (hist[i].lookup = "NotFound" \/ hist[i].failedCall = "get") =>
                /\ Done(i)
                /\ exc[i] = IF hist[i].lookup = "NotFound" THEN "NotFound"
                            ELSE "TransportError"
                /\ hist[i].eligs = 0
                /\ hist[i].posts = 0
                /\ ~Made(i, "status")
                /\ retval[i] = NoValue
            /\ hist[i].failedCall = "can_update" =>
                /\ Done(i)
                /\ exc[i] = "TransportError"
                /\ hist[i].posts = 0
                /\ ~Made(i, "status")
                /\ retval[i] = NoValue
            /\ hist[i].failedCall = "post" =>
                /\ Done(i)
                /\ exc[i] = "TransportError"
                /\ hist[i].created = 0
                /\ ~Made(i, "status")
                /\ retval[i] = NoValue

\* The POST of an update with --monitor failed after its lookup and its
\* eligibility GET had answered, and the update raised.
C14_Witness ==
    \E i \in Invs :
        /\ Monitoring(i)
        /\ hist[i].lookup = "ok"
        /\ hist[i].can_update = "true"
        /\ hist[i].failedCall = "post"
        /\ exc[i] = "TransportError"
        /\ Done(i)

\* C18: status follows only links that are not null: a link that is there
\* and null counts as missing, so status never raises on a null link, the
\* link it follows is never null, and a current_update of null with a
\* last_update that names a job makes it follow last_update.
C18_NullLinkCountsAsAbsent ==
    \A i \in Invs :
        HasProject(i) =>
            /\ exc[i] # "TypeError"
            /\ via[i] # "none" => HasLink(i, via[i])
            /\ ("current_update" \in DOMAIN project[i]
                    /\ project[i]["current_update"] = Null
                    /\ HasLink(i, "last_update"))
                => via[i] = "last_update"

\* ------------------------------------------------- concurrent invocations
\* Two invocations of the command line run at once against one project that
\* has no update yet.
ConcInit ==
    /\ jobs = <<>>
    /\ related = <<>>
    /\ manual \in BOOLEAN
    /\ stored = SomeProject
    /\ InitClient({1, 2})

\* Both invocations are `update`, with or without --monitor.
StartUpdate(i) ==
    /\ Start(i)
    /\ cmd'[i].op = "update"

ConcClient(i) ==
    \/ StartUpdate(i)
    \/ UpdateGet(i)
    \/ UpdateCanUpdate(i)
    \/ UpdatePost(i)
    \/ StatusGetProject(i)
    \/ StatusGetJob(i)
    \/ MonitorSleep(i)

\* The server's jobs run on meanwhile; their elapsed times, which decide
\* nothing about eligibility or the project's links, stay as they start.
ConcNext ==
    \/ \E i \in Invs : ConcClient(i) /\ UNCHANGED crud
    \/ ServerJobStep /\ UNCHANGED crud

ConcSpec == ConcInit /\ [][ConcNext]_vars

\* The client-side state of invocation i.
Locals(i) ==
    <<pc[i], cmd[i], project[i], path[i], via[i], job[i], wall[i],
      retval[i], exc[i], hist[i], answer[i]>>

\* The invocations whose eligibility GET was answered can_update == true.
Passed == {i \in Invs : hist[i].can_update = "true"}

\* C12 as stated: once the concurrent update invocations are over, the
\* number of jobs created equals the number of invocations that passed the
\* eligibility check.
C12_JobsEqualPassed ==
    (\A i \in Invs : Done(i)) => Len(jobs) = Cardinality(Passed)

\* C12, amended: for any interleaving of concurrent update invocations, each
\* invocation sends at most one POST and only after its own eligibility GET
\* answered true, and every finished invocation that passed the check sent
\* its POST; the jobs created are the POSTs the server answered, at most one
\* for each invocation that passed; no step changes the client-side state of
\* two invocations.
C12_OnePostEachNoSharedState ==
    /\ [](\A i \in Invs :
            /\ hist[i].posts <= 1
            /\ hist[i].created <= hist[i].posts
            /\ (hist[i].posts = 1 => i \in Passed)
            /\ (Done(i) /\ i \in Passed => hist[i].posts = 1))
    /\ [](Len(jobs) = hist[1].created + hist[2].created)
    /\ [](Len(jobs) <= Cardinality(Passed))
    /\ [][\A i, k \in Invs :
            (i # k /\ Locals(i)' # Locals(i)) => Locals(k)' = Locals(k)]_vars

\* Both invocations passed the check and sent their POST, and one job exists.
C12_Witness ==
    /\ \A i \in Invs : Done(i) /\ i \in Passed /\ hist[i].posts = 1
    /\ Len(jobs) = 1

\* C16 as stated: at the moment update issues its POST the project is still
\* eligible on the server, whatever interleaves between this invocation's
\* eligibility GET and its POST.
C16_EligibleAtPost ==
    [][\A i \in Invs : hist'[i].posts > hist[i].posts => CanUpdate]_vars

\* C16, amended: update goes on to its POST only from an eligibility GET that
\* found the project eligible on the server, and issues the POST only after
\* that GET answered true; other invocations and job transitions may make the
\* project ineligible in between, and then the POST is sent all the same but
\* starts no job: a job starts only while the server considers the project
\* eligible.
C16_EligibleAtOwnGet ==
    /\ [][\A i \in Invs :
            /\ (hist'[i].eligs > hist[i].eligs /\ pc'[i] = "post") => CanUpdate
            /\ hist'[i].posts > hist[i].posts =>
                    (hist[i].eligs = 1 /\ hist[i].can_update = "true")]_vars
    /\ [][Len(jobs') > Len(jobs) => CanUpdate]_vars

\* An invocation passed the check, then sent a POST that started nothing,
\* while the other invocation's job, started in between, is still active.
C16_Witness ==
    \E i, k \in Invs :
        /\ i # k
        /\ hist[i].can_update = "true" /\ hist[k].can_update = "true"
        /\ hist[i].posts = 1 /\ hist[i].created = 0 /\ hist[i].failedCall = "post"
        /\ hist[k].created = 1
        /\ jobs[hist[k].job].status \in ActiveStatuses

\* C17: when update with monitor returns a terminal job, that job is the one
\* this invocation's POST created, not an earlier update of the project and
\* not the job of another invocation.
C17_MonitorReturnsOwnJob ==
    \A i \in Invs :
        (Monitoring(i) /\ Done(i) /\ IsJob(retval[i])) =>
            /\ retval[i].status \in TerminalStatuses
            /\ hist[i].created = 1
            /\ retval[i].id = hist[i].job

\* ------------------------------------------------------ create, modify
\* Organizations the server holds, by primary key; an organization that is
\* given is <<its key>>, one that is not is Null (None).
MaxOrgs == 2
Orgs == {<<o>> : o \in 1..MaxOrgs}

\* The values a written attribute may take, <<value>> as against Null.
Values == {<<"v1">>, <<"v2">>}

\* The fields of a project.
ProjectFields ==
    {"name", "description", "organization", "scm_type", "scm_url", "local_path",
     "scm_branch", "scm_credential", "scm_clean", "scm_delete_on_update",
     "scm_update_on_launch"}

\* A variant of ModifyOptions that offers every field of the project.
ModifyOptionsEveryField == ProjectFields

\* modify, use_fields_as_options: the fields the command takes as options.
ModifyOptions ==
    {"name", "description", "scm_type", "scm_url", "local_path", "scm_branch",
     "scm_credential", "scm_clean", "scm_delete_on_update", "scm_update_on_launch"}

\* create, **kwargs: `organization` is a parameter of its own, so the fields
\* handed on to write never hold it.
CreateKwargs == ProjectFields \ {"organization"}

\* The fields a command may be given out of those it takes: none, or one
\* with a value.
Payloads(options) ==
    {<<>>} \cup UNION {{k :> v : v \in IF k = "organization" THEN Orgs ELSE Values} :
                         k \in options}

\* The server writes the fields it is sent into the record; of a project's
\* attributes the record keeps the organization and the description.
ServerWrite(rec, fs) ==
    [exists |-> TRUE,
     organization |-> IF "organization" \in DOMAIN fs THEN fs["organization"]
                      ELSE rec.organization,
     description |-> IF "description" \in DOMAIN fs THEN fs["description"]
                     ELSE rec.description]

\* models.Resource.write: looks the record up; creates it if it is missing
\* and create_on_missing, fails on an existing one if fail_on_found, writes
\* the fields to an existing one if force_on_exists, and answers the record.
ResourceWrite(rec, fs, create_on_missing, fail_on_found, force_on_exists) ==
    IF ~rec.exists
    THEN IF create_on_missing
         THEN [exc |-> "none", record |-> ServerWrite(NoProject, fs), made |-> TRUE]
         ELSE [exc |-> "NotFound", record |-> rec, made |-> FALSE]
    ELSE IF fail_on_found
         THEN [exc |-> "Found", record |-> rec, made |-> FALSE]
         ELSE [exc |-> "none",
               record |-> IF force_on_exists THEN ServerWrite(rec, fs) ELSE rec,
               made |-> FALSE]

\* The server takes a write's outcome: the record, and for a project just
\* made that is not manual it may start the first update.
ServerTakes(w, start) ==
    /\ stored' = w.record
    /\ IF w.made /\ start /\ CanUpdate THEN ServerStartUpdate ELSE UNCHANGED server

\* The command line starts create with its arguments; an organization that
\* is given is the primary key of one.
StartCreate(i) ==
    /\ pc[i] = "idle"
    /\ \E org \in {Null} \cup Orgs, m \in BOOLEAN, t \in Timeouts :
        cmd' = [cmd EXCEPT ![i] = [op |-> "create", monitor |-> m, timeout |-> t,
                                   detail |-> FALSE, organization |-> org]]
    /\ pc' = [pc EXCEPT ![i] = "cr_write"]
    /\ UNCHANGED <<server, crud, project, path, via, job, wall, retval, exc, hist>>

\* create, "if the monitor flag is set, wait for the SCM to update": the
\* monitor, or the write's answer.
AfterAssoc(i, ans) ==
    IF cmd[i].monitor
    THEN Goto(i, "st_project")
    ELSE Return(i, ans)

\* A variant of AfterWrite that never associates an organization.
AfterWriteNoOrganization(i, ans) == AfterAssoc(i, ans)

\* create, "If an organization is given, associate it here".
AfterWrite(i, ans) ==
    IF cmd[i].organization # Null
    THEN Goto(i, "cr_org_get")
    ELSE AfterAssoc(i, ans)

\* create, "First, run the create method, ignoring the organization given".
CreateWrite(i) ==
    /\ pc[i] = "cr_write"
    /\ \E http \in HttpOutcomes, fs \in Payloads(CreateKwargs),
          fail_on_found \in BOOLEAN, force_on_exists \in BOOLEAN, start \in BOOLEAN :
        LET w == ResourceWrite(stored, fs, TRUE, fail_on_found, force_on_exists) IN
        IF http # "ok"
        THEN /\ Raise(i, http)
             /\ hist' = [hist EXCEPT ![i] = NoteFailed(i, "write")]
             /\ UNCHANGED <<server, crud>>
        ELSE IF w.exc # "none"
        THEN /\ Raise(i, w.exc)
             /\ hist' = [hist EXCEPT ![i] = Note(i, "write")]
             /\ UNCHANGED <<server, crud>>
        ELSE /\ ServerTakes(w, start)
             /\ answer' = [answer EXCEPT ![i] = w.record]
             /\ hist' = [hist EXCEPT ![i] = Note(i, "write")]
             /\ AfterWrite(i, w.record)
    /\ UNCHANGED <<cmd, project, path, via, job, wall>>

\* create, org_resource.get(organization): the organization's record.
CreateOrgGet(i) ==
    /\ pc[i] = "cr_org_get"
    /\ \E http \in HttpOutcomes, matches \in 0..2 :
        IF http # "ok"
        THEN /\ Raise(i, http)
             /\ hist' = [hist EXCEPT ![i] = NoteFailed(i, "org_get")]
        ELSE /\ hist' = [hist EXCEPT ![i] =
                    [Note(i, "org_get") EXCEPT !.lookup = ResourceGet(matches)]]
             /\ IF ResourceGet(matches) # "ok"
                THEN Raise(i, ResourceGet(matches))
                ELSE Goto(i, "cr_assoc")
    /\ UNCHANGED <<server, crud, cmd, project, path, via, job, wall>>

\* create, org_resource._assoc('projects', org_pk, project_id).
CreateAssoc(i) ==
    /\ pc[i] = "cr_assoc"
    /\ \E http \in HttpOutcomes :
        IF http # "ok"
        THEN /\ Raise(i, http)
             /\ hist' = [hist EXCEPT ![i] = NoteFailed(i, "assoc")]
             /\ UNCHANGED stored
        ELSE /\ stored' = [stored EXCEPT !.organization = cmd[i].organization]
             /\ hist' = [hist EXCEPT ![i] = Note(i, "assoc")]
             /\ AfterAssoc(i, answer[i])
    /\ UNCHANGED <<server, answer, cmd, project, path, via, job, wall>>

\* The command line starts modify.
StartModify(i) ==
    /\ pc[i] = "idle"
    /\ cmd' = [cmd EXCEPT ![i] = [op |-> "modify", monitor |-> FALSE,
                                  timeout |-> NoTimeout, detail |-> FALSE]]
    /\ pc' = [pc EXCEPT ![i] = "mo_write"]
    /\ UNCHANGED <<server, crud, project, path, via, job, wall, retval, exc, hist>>

\* modify: write(pk, create_on_missing=..., force_on_exists=True, **kwargs),
\* the fields being those of the command's options.
ModifyWrite(i) ==
    /\ pc[i] = "mo_write"
    /\ \E http \in HttpOutcomes, fs \in Payloads(ModifyOptions),
          create_on_missing \in BOOLEAN, start \in BOOLEAN :
        LET w == ResourceWrite(stored, fs, create_on_missing, FALSE, TRUE) IN
        IF http # "ok"
        THEN /\ Raise(i, http)
             /\ hist' = [hist EXCEPT ![i] = NoteFailed(i, "write")]
             /\ UNCHANGED <<server, stored>>
        ELSE IF w.exc # "none"
        THEN /\ Raise(i, w.exc)
             /\ hist' = [hist EXCEPT ![i] = Note(i, "write")]
             /\ UNCHANGED <<server, stored>>
        ELSE /\ ServerTakes(w, start)
             /\ hist' = [hist EXCEPT ![i] = Note(i, "write")]
             /\ Return(i, w.record)
    /\ UNCHANGED <<answer, cmd, project, path, via, job, wall>>

\* The command is over and the command line is run once more.
NextCommand(i) ==
    /\ pc[i] = "done"
    /\ pc' = [pc EXCEPT ![i] = "idle"]
    /\ cmd' = [cmd EXCEPT ![i] = [op |-> "none", monitor |-> FALSE,
                                  timeout |-> NoTimeout, detail |-> FALSE]]
    /\ project' = [project EXCEPT ![i] = Unset]
    /\ path' = [path EXCEPT ![i] = <<>>]
    /\ via' = [via EXCEPT ![i] = "none"]
    /\ job' = [job EXCEPT ![i] = Unset]
    /\ wall' = [wall EXCEPT ![i] = 0]
    /\ retval' = [retval EXCEPT ![i] = NoValue]
    /\ exc' = [exc EXCEPT ![i] = "none"]
    /\ hist' = [hist EXCEPT ![i] = NoCalls]
    /\ answer' = [answer EXCEPT ![i] = Unset]
    /\ UNCHANGED <<server, stored>>

\* create and modify, run one after another against one project that may
\* not exist yet; create's monitor polls status.
CrudInit ==
    /\ jobs = <<>>
    /\ related = <<>>
    /\ manual \in BOOLEAN
    /\ stored \in {NoProject, SomeProject}
    /\ InitClient({1})

CrudClient(i) ==
    \/ StartCreate(i)
    \/ CreateWrite(i)
    \/ CreateOrgGet(i)
    \/ CreateAssoc(i)
    \/ StartModify(i)
    \/ ModifyWrite(i)
    \/ NextCommand(i)
    \/ StatusGetProject(i) /\ UNCHANGED crud
    \/ StatusGetJob(i) /\ UNCHANGED crud
    \/ MonitorSleep(i) /\ UNCHANGED crud

CrudNext ==
    \/ \E i \in Invs : CrudClient(i)
    \/ ServerJobStep /\ UNCHANGED crud
    \/ ServerTick /\ UNCHANGED crud

CrudSpec == CrudInit /\ [][CrudNext]_vars

\* C13: a project's organization is settable only at creation: every modify
\* call leaves the project's organization as it was, whatever fields it is
\* given, and the organization changes only in the association step of a
\* create.
C13_ModifyKeepsOrganization ==
    /\ [][\A i \in Invs :
            (pc[i] = "mo_write" /\ pc'[i] # pc[i]) =>
                stored'.organization = stored.organization]_vars
    /\ [][stored'.organization # stored.organization =>
            \E i \in Invs : cmd[i].op = "create" /\ pc[i] = "cr_assoc"]_vars

\* A modify that wrote a field of a project that has an organization.
C13_Witness ==
    \E i \in Invs :
        /\ cmd[i].op = "modify" /\ Done(i) /\ exc[i] = "none"
        /\ stored.organization # Null
        /\ stored.description # Null
        /\ retval[i] = stored

\* Invocation i runs create, and was given an organization.
Creating(i) == cmd[i].op = "create"
OrgGiven(i) == cmd[i].organization # Null

\* The calls of a create in the order of the code.
CreateCalls(i) ==
    IF OrgGiven(i) THEN <<"write", "org_get", "assoc", "status">>
    ELSE <<"write", "status">>

\* C15: create writes the project first and without the organization, then
\* associates the organization exactly once if and only if one was given, and
\* only then does it monitor, if monitor is set; it returns the monitor's
\* result with monitor and the write's answer without; when the organization
\* lookup or the association fails, no monitoring starts.
C15_CreateWriteAssocMonitor ==
    /\ [](\A i \in Invs : Creating(i) =>
            /\ IsPrefix(hist[i].order, CreateCalls(i))
            /\ hist[i].writes <= 1 /\ hist[i].assocs <= 1
            /\ Made(i, "status") =>
                    (cmd[i].monitor /\ (hist[i].assocs = 1 <=> OrgGiven(i)))
            /\ (Done(i) /\ exc[i] = "none") =>
                    /\ hist[i].writes = 1
                    /\ hist[i].assocs = 1 <=> OrgGiven(i)
                    /\ IF cmd[i].monitor
                       THEN retval[i] = TimeoutResult
                                \/ (IsJob(retval[i]) /\ retval[i] = job[i])
                       ELSE retval[i] = answer[i] /\ ~Made(i, "status")
            /\ (hist[i].failedCall \in {"org_get", "assoc"}
                    \/ hist[i].lookup = "NotFound") =>
                    (Done(i) /\ exc[i] # "none" /\ ~Made(i, "status")))
    /\ [][\A i \in Invs :
            /\ (pc[i] = "cr_write" /\ pc'[i] # pc[i]) =>
                    stored'.organization = stored.organization
            /\ (pc[i] = "cr_assoc" /\ hist'[i].failedCall = "none" /\ pc'[i] # pc[i]) =>
                    stored'.organization = cmd[i].organization]_vars

\* A create with an organization and --monitor that came back from the
\* monitor with the job of the project's first update.
C15_Witness ==
    \E i \in Invs :
        /\ Creating(i) /\ OrgGiven(i) /\ cmd[i].monitor
        /\ Done(i) /\ IsJob(retval[i])
        /\ hist[i].assocs = 1
        /\ stored.organization = cmd[i].organization

====
